---- MODULE Spec2Model ----
(***************************************************************************)
(* A model of censore's ProfanityFilter (src/censore/profanity_filter.py), *)
(* of the free functions of src/censore/utils.py and of the normaliser of  *)
(* the older Censor class (src/censore/censor.py).                         *)
(*                                                                         *)
(* A Python str is a sequence of one-character strings; a frozenset of     *)
(* str is a set of such sequences.                                         *)
(***************************************************************************)
EXTENDS Integers, Sequences, FiniteSets, TLC

VARIABLES
    languages,          \* self.languages: the default active language keys
    profanity_patterns, \* self.profanity_patterns: key -> {patterns, exclude_patterns}
    op,                 \* the operation that ran last
    word,               \* the str argument of a word-level operation
    text,               \* the str argument of a text-level operation
    arg,                \* the other arguments of the operation that ran last
    all_patterns,       \* the local all_patterns of the text-level operation
    ret                 \* what the operation returned (or raised)

vars == <<languages, profanity_patterns, op, word, text, arg, all_patterns, ret>>

(***************************************************************************)
(* Bounds of the model.                                                    *)
(***************************************************************************)
MaxWordLen == 3
MaxTextLen == 4

(***************************************************************************)
(* Characters.                                                             *)
(***************************************************************************)
\* utils.py:4-15, profanity_filter.py:19-30, censor.py:20-31
substitution_table ==
    [c \in {"0", "1", "@", "$", "3", "5", "7", "8"} |->
        CASE c = "0" -> "o"
          [] c = "1" -> "i"
          [] c = "@" -> "a"
          [] c = "$" -> "s"
          [] c = "3" -> "e"
          [] c = "5" -> "s"
          [] c = "7" -> "t"
          [] c = "8" -> "b"]

\* utils.py:17, profanity_filter.py:32, censor.py:123
strip_chars == {".", ",", "!", "?", ":", ";", "/", "(", ")", "[", "]", "{", "}", "-"}

\* The characters str.split() with no argument separates on.
Whitespace == {" ", "\t", "\n"}

\* The upper-case letters of the model and what str.lower() makes of them.
UpperCase == {"A", "B", "S"}

LowerOfUpper ==
    [c \in UpperCase |-> CASE c = "A" -> "a" [] c = "B" -> "b" [] c = "S" -> "s"]

(***************************************************************************)
(* str methods.                                                            *)
(***************************************************************************)
\* str.translate(table): each character the table maps is replaced.
RECURSIVE translate(_, _)
translate(s, table) ==
    IF s = <<>> THEN <<>>
    ELSE <<IF Head(s) \in DOMAIN table THEN table[Head(s)] ELSE Head(s)>>
         \o translate(Tail(s), table)

\* str.lower()
RECURSIVE lower(_)
lower(s) ==
    IF s = <<>> THEN <<>>
    ELSE <<IF Head(s) \in UpperCase THEN LowerOfUpper[Head(s)] ELSE Head(s)>>
         \o lower(Tail(s))

RECURSIVE lstrip(_, _)
lstrip(s, chars) ==
    IF s = <<>> THEN s
    ELSE IF Head(s) \in chars THEN lstrip(Tail(s), chars)
    ELSE s

RECURSIVE rstrip(_, _)
rstrip(s, chars) ==
    IF s = <<>> THEN s
    ELSE IF s[Len(s)] \in chars THEN rstrip(SubSeq(s, 1, Len(s) - 1), chars)
    ELSE s

\* str.strip(chars): the leading and the trailing run of chars are removed.
py_strip(s, chars) == rstrip(lstrip(s, chars), chars)

\* sub in s: sub occurs in s at some offset (the empty str occurs in every str).
contains(s, sub) ==
    \E i \in 0..(Len(s) - Len(sub)) : SubSeq(s, i + 1, i + Len(sub)) = sub

\* str.find(sub): the offset of the first occurrence of sub in s, or -1.
find(s, sub) ==
    IF contains(s, sub)
    THEN CHOOSE i \in 0..(Len(s) - Len(sub)) :
            /\ SubSeq(s, i + 1, i + Len(sub)) = sub
            /\ \A j \in 0..(i - 1) : SubSeq(s, j + 1, j + Len(sub)) # sub
    ELSE -1

\* str.replace(old, new): every non-overlapping occurrence of old, scanning
\* from the left, becomes new; an empty old matches before every character
\* and at the end.
RECURSIVE replace_nonempty(_, _, _)
replace_nonempty(s, old, new) ==
    LET i == find(s, old) IN
    IF i = -1 THEN s
    ELSE SubSeq(s, 1, i) \o new
         \o replace_nonempty(SubSeq(s, i + Len(old) + 1, Len(s)), old, new)

RECURSIVE replace_empty(_, _)
replace_empty(s, new) ==
    IF s = <<>> THEN new
    ELSE new \o <<Head(s)>> \o replace_empty(Tail(s), new)

replace(s, old, new) ==
    IF old = <<>> THEN replace_empty(s, new) ELSE replace_nonempty(s, old, new)

\* str.split(): the maximal runs of non-whitespace characters, in order.
RECURSIVE split_from(_, _)
split_from(s, cur) ==
    IF s = <<>> THEN (IF cur = <<>> THEN <<>> ELSE <<cur>>)
    ELSE IF Head(s) \in Whitespace
         THEN (IF cur = <<>> THEN <<>> ELSE <<cur>>) \o split_from(Tail(s), <<>>)
         ELSE split_from(Tail(s), Append(cur, Head(s)))

\* str.split(" ") of the older class: only the space separates.
RECURSIVE split_on_space_from(_, _)
split_on_space_from(s, cur) ==
    IF s = <<>> THEN <<cur>>
    ELSE IF Head(s) = " "
         THEN <<cur>> \o split_on_space_from(Tail(s), <<>>)
         ELSE split_on_space_from(Tail(s), Append(cur, Head(s)))

split_on_space(s) == split_on_space_from(s, <<>>)

split(s) == split_from(s, <<>>)

\* str * n
RECURSIVE repeat(_, _)
repeat(s, n) == IF n <= 0 THEN <<>> ELSE s \o repeat(s, n - 1)

(***************************************************************************)
(* utils.py / ProfanityFilter static helpers.                              *)
(***************************************************************************)
normalize_word_nolower(w) == translate(w, substitution_table)

normalize_word(w) == lower(translate(w, substitution_table))

strip_leading_only(w) == lstrip(w, strip_chars)

\* At most one character is removed at each end.
strip_one_char(w) ==
    LET l == IF w # <<>> /\ Head(w) \in strip_chars THEN Tail(w) ELSE w IN
    IF l # <<>> /\ l[Len(l)] \in strip_chars THEN SubSeq(l, 1, Len(l) - 1) ELSE l

strip(w) == py_strip(w, strip_chars)

\* The normalised form _is_profane_word matches against.
normalized_word(w) == normalize_word(strip(w))

\* Censor._strip and Censor._normalize_word of the older class.
Censor_strip(w) == py_strip(w, strip_chars)

Censor_normalize_word(w) == lower(Censor_strip(translate(w, substitution_table)))

(***************************************************************************)
(* ProfanityFilter._is_profane_word and ProfanityFilter.censor_word.       *)
(***************************************************************************)
is_profane_word_profanity_first(w, patterns, exclude_patterns) ==
    LET n == normalize_word(strip(w)) IN
    IF \E p \in patterns : contains(n, p) THEN TRUE
    ELSE FALSE

is_profane_word(w, patterns, exclude_patterns) ==
    LET n == normalize_word(strip(w)) IN
    IF \E e \in exclude_patterns : contains(n, e) THEN FALSE
    ELSE \E p \in patterns : contains(n, p)

censor_word_keep_two(w, partial_censor, censoring_char) ==
    IF partial_censor /\ Len(w) > 4
    THEN SubSeq(w, 1, 2) \o repeat(censoring_char, Len(w) - 4)
         \o SubSeq(w, Len(w) - 1, Len(w))
    ELSE repeat(censoring_char, Len(w))

censor_word_short(w, partial_censor, censoring_char) ==
    IF partial_censor /\ Len(w) > 2
    THEN <<w[1]>> \o repeat(censoring_char, Len(w) - 2) \o <<w[Len(w)]>>
    ELSE repeat(censoring_char, Len(w) - 1)

censor_word(w, partial_censor, censoring_char) ==
    IF partial_censor /\ Len(w) > 2
    THEN <<w[1]>> \o repeat(censoring_char, Len(w) - 2) \o <<w[Len(w)]>>
    ELSE repeat(censoring_char, Len(w))

(***************************************************************************)
(* Inputs of the word-level operations.                                    *)
(***************************************************************************)
WordAlphabet == {"a", "B", "@", "8", ".", "-", "#"}

\* The words the tests and the documentation use.
ExampleWords ==
    { <<"h", "3", "l", "l", "0", "!">>,
      <<"@", "s", "s", "h", "0", "l", "3">>,
      <<"@", "s", "s", "h", "0", "l", "3", ".">>,
      <<"f", "u", "c", "k">>,
      <<"f", "u", "c", "k", "i", "n", "g">>,
      <<"n", "o", "t", "f", "o", "o", "b", "a", "r">>,
      <<"(", "S", "-", "5", ")", "?">> }

StringsUpTo(alphabet, n) == UNION {[1..k -> alphabet] : k \in 0..n}

Words == StringsUpTo(WordAlphabet, MaxWordLen) \cup ExampleWords

ProfanityUniverse == {<<"a">>, <<"b">>, <<"a", "b">>}
ExcludeUniverse == {<<"b", "a">>, <<"b">>}

\* The pattern sets of test_add_custom_lang and of the documented examples.
ExamplePatterns ==
    { <<"f", "o", "o", "b", "a", "r">>, <<"f", "u", "c", "k">>,
      <<"a", "s", "s", "h", "o", "l", "e">> }
ExampleExcludePatterns == { <<"n", "o", "t", "f", "o", "o", "b", "a", "r">> }

PatternViews ==
    {[patterns |-> P, exclude_patterns |-> E] :
        P \in SUBSET ProfanityUniverse, E \in SUBSET ExcludeUniverse}
    \cup {[patterns |-> ExamplePatterns, exclude_patterns |-> E] :
            E \in {{}, ExampleExcludePatterns}}

CensoringChars == {<<"#">>, <<"*">>, <<"*", "*">>}

NoArg == [none |-> TRUE]
NoRegistry == [k \in {} |-> {}]
NoView == [patterns |-> {}, exclude_patterns |-> {}]

(***************************************************************************)
(* The word-level operations applied to a word drawn from Words.           *)
(***************************************************************************)
InitWord ==
    /\ languages = {}
    /\ profanity_patterns = NoRegistry
    /\ op = "init"
    /\ word \in Words
    /\ text = <<>>
    /\ arg = NoArg
    /\ all_patterns = NoView
    /\ ret = <<>>

CallStrip ==
    /\ op' = "strip"
    /\ arg' = NoArg
    /\ ret' = strip(word)
    /\ UNCHANGED <<languages, profanity_patterns, word, text, all_patterns>>

CallNormalizeWord ==
    /\ op' = "normalize_word"
    /\ arg' = NoArg
    /\ ret' = normalize_word(word)
    /\ UNCHANGED <<languages, profanity_patterns, word, text, all_patterns>>

\* profanity_filter.py:373, the normaliser of the matcher
CallNormalized ==
    /\ op' = "normalized_word"
    /\ arg' = NoArg
    /\ ret' = normalized_word(word)
    /\ UNCHANGED <<languages, profanity_patterns, word, text, all_patterns>>

CallCensorNormalizeWord ==
    /\ op' = "Censor_normalize_word"
    /\ arg' = NoArg
    /\ ret' = Censor_normalize_word(word)
    /\ UNCHANGED <<languages, profanity_patterns, word, text, all_patterns>>

CallIsProfaneWord ==
    \E v \in PatternViews :
        /\ op' = "is_profane_word"
        /\ arg' = v
        /\ ret' = is_profane_word(word, v.patterns, v.exclude_patterns)
        /\ UNCHANGED <<languages, profanity_patterns, word, text, all_patterns>>

CallCensorWord ==
    \E partial \in BOOLEAN, c \in CensoringChars :
        /\ op' = "censor_word"
        /\ arg' = [partial_censor |-> partial, censoring_char |-> c]
        /\ ret' = censor_word(word, partial, c)
        /\ UNCHANGED <<languages, profanity_patterns, word, text, all_patterns>>

\* The normaliser applied to its own result; which names the normaliser:
\* the matcher's (strip, then normalize_word), normalize_word alone, or the
\* older class's.
normalizer(which, w) ==
    CASE which = "normalized_word" -> normalized_word(w)
      [] which = "normalize_word" -> normalize_word(w)
      [] which = "Censor_normalize_word" -> Censor_normalize_word(w)

CallNormalizeTwice ==
    \E which \in {"normalized_word", "normalize_word", "Censor_normalize_word"} :
        /\ op' = "normalize_twice"
        /\ arg' = [which |-> which, once |-> normalizer(which, word)]
        /\ ret' = normalizer(which, normalizer(which, word))
        /\ UNCHANGED <<languages, profanity_patterns, word, text, all_patterns>>

NextWord ==
    \/ CallStrip
    \/ CallNormalizeTwice
    \/ CallNormalizeWord
    \/ CallNormalized
    \/ CallCensorNormalizeWord
    \/ CallIsProfaneWord
    \/ CallCensorWord

SpecWord == InitWord /\ [][NextWord]_vars

(***************************************************************************)
(* The pattern files of the data folder (the data provider).  "zz" is a    *)
(* language key with no pattern file.                                      *)
(***************************************************************************)
\* profanity_filter.py:83-87, the *.txt files of data/patterns
available_languages == {"en", "ru"}

\* profanity_filter.py:117-120, _load_patterns_from_file on the two files
load_patterns_from_file(language) ==
    IF language = "en"
    THEN [patterns |-> {<<"a">>}, exclude_patterns |-> {}]
    ELSE [patterns |-> {<<"b">>}, exclude_patterns |-> {<<"b", "a">>}]

(***************************************************************************)
(* The filter's state is the pair self.languages, self.profanity_patterns. *)
(***************************************************************************)
Registry(langs, pats) == [languages |-> langs, profanity_patterns |-> pats]

\* A variant of _load_language that reads the files of a language again
\* although it is a default.
load_language_again(reg, language, is_additional_language) ==
    Registry(
        IF ~is_additional_language
        THEN reg.languages \cup {language}
        ELSE reg.languages,
        [k \in DOMAIN reg.profanity_patterns \cup {language} |->
            IF k = language THEN load_patterns_from_file(language)
            ELSE reg.profanity_patterns[k]])

\* A variant of _load_language that makes every loaded language a default.
load_language_as_default(reg, language, is_additional_language) ==
    IF language \notin reg.languages
    THEN Registry(
            reg.languages \cup {language},
            [k \in DOMAIN reg.profanity_patterns \cup {language} |->
                IF k = language THEN load_patterns_from_file(language)
                ELSE reg.profanity_patterns[k]])
    ELSE reg

\* _load_language for a language that is a default or has pattern files.
load_language(reg, language, is_additional_language) ==
    IF language \notin reg.languages
    THEN Registry(
            IF ~is_additional_language
            THEN reg.languages \cup {language}
            ELSE reg.languages,
            [k \in DOMAIN reg.profanity_patterns \cup {language} |->
                IF k = language THEN load_patterns_from_file(language)
                ELSE reg.profanity_patterns[k]])
    ELSE reg

\* _load_language raises FileNotFoundError: open() fails on a missing file.
load_language_raises(reg, language) ==
    language \notin reg.languages /\ language \notin available_languages

RECURSIVE load_each(_, _, _)
load_each(reg, todo, is_additional_language) ==
    IF todo = {} THEN reg
    ELSE LET language == CHOOSE l \in todo : TRUE IN
         load_each(load_language(reg, language, is_additional_language),
                   todo \ {language}, is_additional_language)

\* _load_languages: what the loop over the set languages_for_loading can
\* leave behind.  A set is iterated in no fixed order, so when some language
\* makes _load_language raise, any of the others may have been loaded
\* before it.
load_languages(reg, langs, is_additional_language) ==
    LET languages_for_loading ==
            IF "all" \in langs THEN available_languages ELSE langs
        failing == {l \in languages_for_loading : load_language_raises(reg, l)}
    IN  IF failing = {}
        THEN {[reg |-> load_each(reg, languages_for_loading, is_additional_language),
               raised |-> FALSE]}
        ELSE {[reg |-> load_each(reg, done, is_additional_language),
               raised |-> TRUE] :
                done \in SUBSET (languages_for_loading \ failing)}

\* A variant of _get_active_languages in which the languages of the call
\* replace the defaults, as in Censor.censor_text.
get_active_languages_narrow(reg, langs, additional_languages) ==
    LET first ==
            IF langs # {}
            THEN {[reg |-> o.reg, raised |-> o.raised,
                   active |-> IF "all" \in langs THEN o.reg.languages
                              ELSE langs] :
                    o \in load_languages(reg, langs, FALSE)}
            ELSE {[reg |-> reg, raised |-> FALSE, active |-> reg.languages]}
        second(f) ==
            IF ~f.raised /\ additional_languages # {}
            THEN {[reg |-> o.reg, raised |-> o.raised,
                   active |-> f.active \cup additional_languages] :
                    o \in load_languages(f.reg, additional_languages, TRUE)}
            ELSE {f}
    IN  UNION {second(f) : f \in first}

\* _get_active_languages; an argument that is None or empty is {}.
get_active_languages(reg, langs, additional_languages) ==
    LET first ==
            IF langs # {}
            THEN {[reg |-> o.reg, raised |-> o.raised,
                   active |-> IF "all" \in langs THEN o.reg.languages
                              ELSE reg.languages \cup langs] :
                    o \in load_languages(reg, langs, FALSE)}
            ELSE {[reg |-> reg, raised |-> FALSE, active |-> reg.languages]}
        second(f) ==
            IF ~f.raised /\ additional_languages # {}
            THEN {[reg |-> o.reg, raised |-> o.raised,
                   active |-> f.active \cup additional_languages] :
                    o \in load_languages(f.reg, additional_languages, TRUE)}
            ELSE {f}
    IN  UNION {second(f) : f \in first}

\* _load_all_pattern_sets
load_all_pattern_sets(reg, active, custom_patterns, custom_exclude_patterns) ==
    LET known == active \cap DOMAIN reg.profanity_patterns IN
    [patterns |->
        UNION {reg.profanity_patterns[l].patterns : l \in known}
            \cup custom_patterns,
     exclude_patterns |->
        UNION {reg.profanity_patterns[l].exclude_patterns : l \in known}
            \cup custom_exclude_patterns]

(***************************************************************************)
(* ProfanityFilter.contains_profanity and ProfanityFilter.censor.          *)
(***************************************************************************)
RECURSIVE any_profane(_, _)
any_profane(words, view) ==
    IF words = <<>> THEN FALSE
    ELSE IF is_profane_word(Head(words), view.patterns, view.exclude_patterns)
         THEN TRUE
         ELSE any_profane(Tail(words), view)

\* The loop of censor over text.split(), profanity_filter.py:447-460.
RECURSIVE censor_loop(_, _, _, _, _)
censor_loop(words, censored_text, view, partial_censor, censor_symbol) ==
    IF words = <<>> THEN censored_text
    ELSE LET stripped_word == strip(Head(words)) IN
         IF is_profane_word(Head(words), view.patterns, view.exclude_patterns)
         THEN censor_loop(Tail(words),
                  replace(censored_text, stripped_word,
                          censor_word(stripped_word, partial_censor, censor_symbol)),
                  view, partial_censor, censor_symbol)
         ELSE censor_loop(Tail(words), censored_text, view,
                          partial_censor, censor_symbol)

ValueError == [type |-> "ValueError", value |-> <<>>]

\* contains_profanity: the outcomes, each the registry left behind and the
\* bool returned or the ValueError raised.
contains_profanity(reg, t, a) ==
    {LET view == load_all_pattern_sets(o.reg, o.active,
                    a.custom_patterns, a.custom_exclude_patterns)
     IN  IF o.raised
         THEN [reg |-> o.reg, all_patterns |-> NoView, ret |-> ValueError]
         ELSE [reg |-> o.reg, all_patterns |-> view,
               ret |-> [type |-> "bool", value |-> any_profane(split(t), view)]] :
        o \in get_active_languages(reg, a.languages, a.additional_languages)}

\* censor: the outcomes, each the registry left behind and the str returned
\* or the ValueError raised.
censor(reg, t, a) ==
    {LET view == load_all_pattern_sets(o.reg, o.active,
                    a.custom_patterns, a.custom_exclude_patterns)
     IN  IF o.raised
         THEN [reg |-> o.reg, all_patterns |-> NoView, ret |-> ValueError]
         ELSE [reg |-> o.reg, all_patterns |-> view,
               ret |-> [type |-> "str",
                        value |-> censor_loop(split(t), t, view,
                                      a.partial_censor, a.censor_symbol)]] :
        o \in get_active_languages(reg, a.languages, a.additional_languages)}

(***************************************************************************)
(* Inputs of the text-level operations.                                    *)
(***************************************************************************)
TextAlphabet == {"a", "b", ".", " "}

\* The texts of the tests, and texts whose words are separated by newlines
\* and tabs.
ExampleTexts ==
    { <<"I", "t", "'", "s", " ", "@", "s", "s", "h", "0", "l", "3", ".">>,
      <<"a", " ", "f", "u", "c", "k", "i", "n", "g", " ", "b", "a", "d", " ",
        "t", "e", "x", "t", ".">>,
      <<"(", "A", ")", "\t", "8", "@">>,
      <<"a", "\n", "b", "a">>,
      <<"b", "\t", "\n", ".", "a", ".">>,
      <<"\n", "b", ".", "\t">> }

Texts == StringsUpTo(TextAlphabet, MaxTextLen) \cup ExampleTexts

\* languages and additional_languages of a call.
LanguageArgs ==
    { <<{}, {}>>, <<{"ru"}, {}>>, <<{}, {"ru"}>>, <<{"ru", "zz"}, {}>> }

\* custom_patterns and custom_exclude_patterns of a call.
CustomArgs ==
    { <<{}, {}>>, <<{<<"b">>} \cup ExamplePatterns, {}>>, <<{}, {<<"b", "a">>}>> }

\* partial_censor and censor_symbol of a call.
CensorModes == { <<FALSE, <<"#">>>>, <<TRUE, <<"#">>>>, <<FALSE, <<"*">>>> }

CallArgs(la, ca, mode) ==
    [languages |-> la[1], additional_languages |-> la[2],
     custom_patterns |-> ca[1], custom_exclude_patterns |-> ca[2],
     partial_censor |-> mode[1], censor_symbol |-> mode[2]]

(***************************************************************************)
(* The filter after ProfanityFilter() or ProfanityFilter(languages=["en"]) *)
(* and the calls made on it.                                               *)
(***************************************************************************)
\* The languages argument of the constructor: the default and benchmark.py's.
ConstructorLanguages == { {"all"}, {"en"} }

Init ==
    /\ \E ls \in ConstructorLanguages :
       \E o \in load_languages(Registry({}, NoRegistry), ls, FALSE) :
        /\ languages = o.reg.languages
        /\ profanity_patterns = o.reg.profanity_patterns
    /\ op = "init"
    /\ word = <<>>
    /\ text \in Texts
    /\ arg = NoArg
    /\ all_patterns = NoView
    /\ ret = [type |-> "None", value |-> <<>>]

ContainsProfanity ==
    \E la \in LanguageArgs, ca \in CustomArgs :
        LET a == CallArgs(la, ca, <<FALSE, <<"#">>>>) IN
        \E o \in contains_profanity(Registry(languages, profanity_patterns), text, a) :
            /\ languages' = o.reg.languages
            /\ profanity_patterns' = o.reg.profanity_patterns
            /\ op' = "contains_profanity"
            /\ arg' = a
            /\ all_patterns' = o.all_patterns
            /\ ret' = o.ret
            /\ UNCHANGED <<word, text>>

Censor ==
    \E la \in LanguageArgs, ca \in CustomArgs, mode \in CensorModes :
        LET a == CallArgs(la, ca, mode) IN
        \E o \in censor(Registry(languages, profanity_patterns), text, a) :
            /\ languages' = o.reg.languages
            /\ profanity_patterns' = o.reg.profanity_patterns
            /\ op' = "censor"
            /\ arg' = a
            /\ all_patterns' = o.all_patterns
            /\ ret' = o.ret
            /\ UNCHANGED <<word, text>>

Next ==
    \/ ContainsProfanity
    \/ Censor

Spec == Init /\ [][Next]_vars

\* A variant of add_custom_language that replaces the stored sets of the key.
add_custom_language_overwrite(reg, language, custom_patterns, exclude_patterns) ==
    Registry(
        reg.languages \cup {language},
        [k \in DOMAIN reg.profanity_patterns \cup {language} |->
            IF k # language THEN reg.profanity_patterns[k]
            ELSE [patterns |-> custom_patterns,
                  exclude_patterns |-> exclude_patterns]])

(***************************************************************************)
(* ProfanityFilter.add_custom_language.                                    *)
(***************************************************************************)
add_custom_language(reg, language, custom_patterns, exclude_patterns) ==
    Registry(
        reg.languages \cup {language},
        [k \in DOMAIN reg.profanity_patterns \cup {language} |->
            IF k # language THEN reg.profanity_patterns[k]
            ELSE IF language \in DOMAIN reg.profanity_patterns
            THEN [patterns |->
                    reg.profanity_patterns[language].patterns \cup custom_patterns,
                  exclude_patterns |->
                    reg.profanity_patterns[language].exclude_patterns
                        \cup exclude_patterns]
            ELSE [patterns |-> custom_patterns,
                  exclude_patterns |-> exclude_patterns]])

\* add_custom_profanity_patterns: language defaults to "custom".
add_custom_profanity_patterns(reg, custom_patterns, exclude_patterns, language) ==
    add_custom_language(reg, language, custom_patterns, exclude_patterns)

(***************************************************************************)
(* The registry: the filter after ProfanityFilter(languages=...) and the   *)
(* operations that read or change self.languages and                      *)
(* self.profanity_patterns, on one of a few texts.                         *)
(***************************************************************************)
RegistryTexts == { <<"a", "b">>, <<"b", " ", "a", "b", "a">> }

RegistryConstructorLanguages == { {}, {"en"}, {"all"} }

\* language of add_custom_language: a new key, and a key with pattern files.
CustomLanguages == {"custom", "ru"}

\* custom_patterns and exclude_patterns of add_custom_language.
CustomPatternArgs ==
    { <<{<<"a", "b">>}, {}>>, <<{<<"b">>}, {<<"b", "a">>}>> }

\* languages of a direct _load_languages call.
LoadArgs == { {"ru"}, {"all"}, {"ru", "zz"}, {"custom"} }

\* languages and additional_languages of a call on the registry.
RegistryLanguageArgs ==
    { <<{}, {}>>, <<{"ru"}, {}>>, <<{}, {"ru"}>>, <<{"all"}, {}>>,
      <<{"ru", "zz"}, {}>>, <<{"ru"}, {"zz"}>>, <<{}, {"ru", "zz"}>>,
      <<{"custom"}, {}>> }

\* custom_patterns and custom_exclude_patterns of a call on the registry.
RegistryCustomArgs == { <<{}, {}>>, <<{<<"b">>}, {<<"b", "a">>}>> }

\* languages of a direct _load_all_pattern_sets call.
CombineArgs == { {}, {"en"}, {"en", "ru"}, {"custom"} }

InitRegistry ==
    /\ \E ls \in RegistryConstructorLanguages :
       \E o \in load_languages(Registry({}, NoRegistry), ls, FALSE) :
        /\ languages = o.reg.languages
        /\ profanity_patterns = o.reg.profanity_patterns
    /\ op = "init"
    /\ word = <<>>
    /\ text \in RegistryTexts
    /\ arg = NoArg
    /\ all_patterns = NoView
    /\ ret = [type |-> "None", value |-> <<>>]

AddCustomLanguage ==
    \E language \in CustomLanguages, pa \in CustomPatternArgs :
        LET reg == add_custom_language(Registry(languages, profanity_patterns),
                                       language, pa[1], pa[2]) IN
        /\ languages' = reg.languages
        /\ profanity_patterns' = reg.profanity_patterns
        /\ op' = "add_custom_language"
        /\ arg' = [language |-> language, custom_patterns |-> pa[1],
                   exclude_patterns |-> pa[2]]
        /\ ret' = [type |-> "None", value |-> <<>>]
        /\ UNCHANGED <<word, text, all_patterns>>

AddCustomProfanityPatterns ==
    \E pa \in CustomPatternArgs :
        LET reg == add_custom_profanity_patterns(
                        Registry(languages, profanity_patterns),
                        pa[1], pa[2], "custom") IN
        /\ languages' = reg.languages
        /\ profanity_patterns' = reg.profanity_patterns
        /\ op' = "add_custom_profanity_patterns"
        /\ arg' = [language |-> "custom", custom_patterns |-> pa[1],
                   exclude_patterns |-> pa[2]]
        /\ ret' = [type |-> "None", value |-> <<>>]
        /\ UNCHANGED <<word, text, all_patterns>>

LoadLanguages ==
    \E ls \in LoadArgs, is_additional_language \in BOOLEAN :
    \E o \in load_languages(Registry(languages, profanity_patterns), ls,
                            is_additional_language) :
        /\ languages' = o.reg.languages
        /\ profanity_patterns' = o.reg.profanity_patterns
        /\ op' = "load_languages"
        /\ arg' = [languages |-> ls,
                   is_additional_language |-> is_additional_language]
        /\ ret' = IF o.raised THEN ValueError ELSE [type |-> "None", value |-> <<>>]
        /\ UNCHANGED <<word, text, all_patterns>>

GetActiveLanguages ==
    \E la \in RegistryLanguageArgs :
    \E o \in get_active_languages(Registry(languages, profanity_patterns),
                                  la[1], la[2]) :
        /\ languages' = o.reg.languages
        /\ profanity_patterns' = o.reg.profanity_patterns
        /\ op' = "get_active_languages"
        /\ arg' = [languages |-> la[1], additional_languages |-> la[2]]
        /\ ret' = IF o.raised THEN ValueError
                  ELSE [type |-> "frozenset", value |-> o.active]
        /\ UNCHANGED <<word, text, all_patterns>>

LoadAllPatternSets ==
    \E ls \in CombineArgs, ca \in RegistryCustomArgs :
        /\ op' = "load_all_pattern_sets"
        /\ arg' = [languages |-> ls, custom_patterns |-> ca[1],
                   custom_exclude_patterns |-> ca[2]]
        /\ ret' = [type |-> "dict",
                   value |-> load_all_pattern_sets(
                                Registry(languages, profanity_patterns),
                                ls, ca[1], ca[2])]
        /\ UNCHANGED <<languages, profanity_patterns, word, text, all_patterns>>

RegistryContainsProfanity ==
    \E la \in RegistryLanguageArgs, ca \in RegistryCustomArgs :
        LET a == CallArgs(la, ca, <<FALSE, <<"#">>>>) IN
        \E o \in contains_profanity(Registry(languages, profanity_patterns), text, a) :
            /\ languages' = o.reg.languages
            /\ profanity_patterns' = o.reg.profanity_patterns
            /\ op' = "contains_profanity"
            /\ arg' = a
            /\ all_patterns' = o.all_patterns
            /\ ret' = o.ret
            /\ UNCHANGED <<word, text>>

RegistryCensor ==
    \E la \in RegistryLanguageArgs, ca \in RegistryCustomArgs :
        LET a == CallArgs(la, ca, <<FALSE, <<"#">>>>) IN
        \E o \in censor(Registry(languages, profanity_patterns), text, a) :
            /\ languages' = o.reg.languages
            /\ profanity_patterns' = o.reg.profanity_patterns
            /\ op' = "censor"
            /\ arg' = a
            /\ all_patterns' = o.all_patterns
            /\ ret' = o.ret
            /\ UNCHANGED <<word, text>>

NextRegistry ==
    \/ AddCustomLanguage
    \/ AddCustomProfanityPatterns
    \/ LoadLanguages
    \/ GetActiveLanguages
    \/ LoadAllPatternSets
    \/ RegistryContainsProfanity
    \/ RegistryCensor

SpecRegistry == InitRegistry /\ [][NextRegistry]_vars

(***************************************************************************)
(* The vocabulary of the claims, stated without the operators above.       *)
(***************************************************************************)
\* The boundary punctuation characters the documentation lists.
BoundaryPunctuation ==
    {".", ",", "!", "?", ":", ";", "/", "(", ")", "[", "]", "{", "}", "-"}

\* The positions of s that hold a character other than boundary punctuation.
CorePositions(s) == {i \in 1..Len(s) : s[i] \notin BoundaryPunctuation}

Smallest(S) == CHOOSE i \in S : \A j \in S : i <= j
Largest(S) == CHOOSE i \in S : \A j \in S : j <= i

\* s without its leading and trailing runs of boundary punctuation.
StrippedForm(s) ==
    IF CorePositions(s) = {} THEN <<>>
    ELSE [k \in 1..(Largest(CorePositions(s)) - Smallest(CorePositions(s)) + 1) |->
            s[Smallest(CorePositions(s)) + k - 1]]

LeadingPunctuation(s) ==
    IF CorePositions(s) = {} THEN s
    ELSE [k \in 1..(Smallest(CorePositions(s)) - 1) |-> s[k]]

TrailingPunctuation(s) ==
    IF CorePositions(s) = {} THEN <<>>
    ELSE [k \in 1..(Len(s) - Largest(CorePositions(s))) |->
            s[Largest(CorePositions(s)) + k]]

\* 0,1,@,$,3,5,7,8 become o,i,a,s,e,s,t,b; upper case becomes lower case.
SubstitutedChar(c) ==
    CASE c = "0" -> "o" [] c = "1" -> "i" [] c = "@" -> "a" [] c = "$" -> "s"
      [] c = "3" -> "e" [] c = "5" -> "s" [] c = "7" -> "t" [] c = "8" -> "b"
      [] OTHER -> c

LowercasedChar(c) ==
    CASE c = "A" -> "a" [] c = "B" -> "b" [] c = "S" -> "s" [] OTHER -> c

NormalForm(s) ==
    [k \in 1..Len(StrippedForm(s)) |->
        LowercasedChar(SubstitutedChar(StrippedForm(s)[k]))]

\* Two strings hold the same characters in the same order.
SameString(s, t) == Len(s) = Len(t) /\ \A i \in 1..Len(s) : s[i] = t[i]

\* p is a substring of s: s holds p's characters in a row at some position.
IsSubstring(p, s) ==
    \E start \in 1..(Len(s) + 1) :
        /\ start + Len(p) - 1 <= Len(s)
        /\ \A k \in 1..Len(p) : s[start + k - 1] = p[k]

\* s is n copies of c, one after the other.
IsCopies(s, c, n) ==
    /\ Len(s) = n * Len(c)
    /\ \A k \in 0..(n - 1) : \A j \in 1..Len(c) : s[k * Len(c) + j] = c[j]

(***************************************************************************)
(* C1. _is_profane_word(w, P, E) is true iff no pattern of E is a          *)
(* substring of n and some pattern of P is a substring of n, n being the   *)
(* normalised form of w with its boundary punctuation stripped.  Hence a   *)
(* word matching both an exclude and a profanity pattern is not profane,   *)
(* an empty P never gives profane and an empty E never excludes.           *)
(***************************************************************************)
C1_IsProfaneIff ==
    op = "is_profane_word" =>
        LET n == NormalForm(word)
            excluded == \E e \in arg.exclude_patterns : IsSubstring(e, n)
            matched == \E p \in arg.patterns : IsSubstring(p, n)
        IN  /\ ret = (~excluded /\ matched)
            /\ (excluded /\ matched => ret = FALSE)
            /\ (arg.patterns = {} => ret = FALSE)
            /\ (arg.exclude_patterns = {} => ret = matched)

\* "notfoobar" under {"foobar", ...} with the exclude pattern "notfoobar":
\* both kinds of pattern match and the word is not profane.
C1_Witness ==
    /\ op = "is_profane_word"
    /\ word = <<"n", "o", "t", "f", "o", "o", "b", "a", "r">>
    /\ arg.patterns = ExamplePatterns
    /\ arg.exclude_patterns = ExampleExcludePatterns
    /\ IsSubstring(<<"f", "o", "o", "b", "a", "r">>, NormalForm(word))
    /\ ret = FALSE

C10_NormalizeIsStripSubstituteLower ==
    op \in {"normalized_word", "Censor_normalize_word"} =>
        /\ SameString(ret, NormalForm(word))
        /\ (word = <<"h", "3", "l", "l", "0", "!">>
                => ret = <<"h", "e", "l", "l", "o">>)
        /\ (word = <<"@", "s", "s", "h", "0", "l", "3">>
                => ret = <<"a", "s", "s", "h", "o", "l", "e">>)

\* "(S-5)?" loses its boundary punctuation, keeps the interior "-", and is
\* substituted and lower-cased.
C10_Witness ==
    /\ op = "normalized_word"
    /\ word = <<"(", "S", "-", "5", ")", "?">>
    /\ ret = <<"s", "-", "s">>

(***************************************************************************)
(* The vocabulary of the text-level claims.                                *)
(***************************************************************************)
Separators == {" ", "\t", "\n"}

\* The whitespace-delimited tokens of t, each as its first and last position.
TokenSpans(t) ==
    {sp \in (1..Len(t)) \X (1..Len(t)) :
        /\ sp[1] <= sp[2]
        /\ \A k \in sp[1]..sp[2] : t[k] \notin Separators
        /\ (sp[1] = 1 \/ t[sp[1] - 1] \in Separators)
        /\ (sp[2] = Len(t) \/ t[sp[2] + 1] \in Separators)}

TokenAt(t, sp) == [k \in 1..(sp[2] - sp[1] + 1) |-> t[sp[1] + k - 1]]

\* A token is classified profane under a view: no exclude pattern and some
\* profanity pattern is a substring of its normal form.
ClassifiedProfane(tok, view) ==
    /\ ~\E e \in view.exclude_patterns : IsSubstring(e, NormalForm(tok))
    /\ \E p \in view.patterns : IsSubstring(p, NormalForm(tok))

ProfaneSpans(t, view) ==
    {sp \in TokenSpans(t) : ClassifiedProfane(TokenAt(t, sp), view)}

\* censor returned (it did not raise).
CensorReturned == op = "censor" /\ ret.type # "ValueError"

\* The censored string of what censor returned: the censored field of a
\* result record, or the str itself.
CensoredOutput == IF ret.type = "Text" THEN ret.value.censored ELSE ret.value

\* The output holds s at the positions of the span sp of the input.
OutputHoldsAt(sp, s) ==
    /\ Len(CensoredOutput) = Len(text)
    /\ Len(s) = sp[2] - sp[1] + 1
    /\ \A k \in 1..Len(s) : CensoredOutput[sp[1] + k - 1] = s[k]

(***************************************************************************)
(* C2. censor is occurrence-safe: every token classified non-profane is in *)
(* the censored output with exactly its original characters, also when it  *)
(* contains the stripped form of a profane token of the same text.         *)
(***************************************************************************)
C2_OccurrenceSafe ==
    CensorReturned =>
        \A sp \in TokenSpans(text) \ ProfaneSpans(text, all_patterns) :
            OutputHoldsAt(sp, TokenAt(text, sp))

(***************************************************************************)
(* C3. Non-profane passthrough: when no token of the text is classified    *)
(* profane, censor returns a censored string identical to the text and     *)
(* reports words_censored = 0.                                             *)
(***************************************************************************)
C3_CensoredIsInput ==
    CensorReturned /\ ProfaneSpans(text, all_patterns) = {} =>
        SameString(CensoredOutput, text)

C3_Passthrough ==
    CensorReturned /\ ProfaneSpans(text, all_patterns) = {} =>
        /\ SameString(CensoredOutput, text)
        /\ ret.type = "Text"
        /\ ret.value.words_censored = 0

(***************************************************************************)
(* C4. At the position of every token classified profane the output holds  *)
(* the token's leading boundary punctuation, then censor_word of its       *)
(* stripped form, then its trailing boundary punctuation.                  *)
(***************************************************************************)
C4_ProfaneTokenMasked ==
    CensorReturned =>
        \A sp \in ProfaneSpans(text, all_patterns) :
            LET tok == TokenAt(text, sp) IN
            OutputHoldsAt(sp,
                LeadingPunctuation(tok)
                \o censor_word(StrippedForm(tok), arg.partial_censor, arg.censor_symbol)
                \o TrailingPunctuation(tok))

\* The example of test_censor_special_characters does come out as claimed.
C4_Example ==
    CensorReturned
        /\ text = <<"I", "t", "'", "s", " ", "@", "s", "s", "h", "0", "l", "3", ".">>
        /\ <<"a", "s", "s", "h", "o", "l", "e">> \in all_patterns.patterns
        /\ arg.censor_symbol = <<"#">> /\ ~arg.partial_censor =>
            CensoredOutput =
                <<"I", "t", "'", "s", " ", "#", "#", "#", "#", "#", "#", "#", ".">>

(***************************************************************************)
(* C5. censor returns a result record: original is the input text,         *)
(* words_censored is the number of tokens classified profane, is_profane   *)
(* is true exactly when words_censored > 0.                                *)
(***************************************************************************)
C5_ResultRecord ==
    CensorReturned =>
        /\ ret.type = "Text"
        /\ ret.value.original = text
        /\ ret.value.words_censored = Cardinality(ProfaneSpans(text, all_patterns))
        /\ ret.value.is_profane = (ret.value.words_censored > 0)

(***************************************************************************)
(* C6. After censor in full mode with the symbol '#', under a view whose   *)
(* patterns hold no '#', no token of the censored text is classified       *)
(* profane under the same view.                                            *)
(***************************************************************************)
C6_OutputIsClean ==
    CensorReturned /\ ~arg.partial_censor /\ arg.censor_symbol = <<"#">>
        /\ (\A p \in all_patterns.patterns : ~IsSubstring(<<"#">>, p)) =>
            ProfaneSpans(CensoredOutput, all_patterns) = {}

(***************************************************************************)
(* C7. contains_profanity returns true iff some whitespace-delimited token *)
(* of the text (spaces, tabs and newlines separate) is classified profane  *)
(* under the combined view censor uses for the same arguments; it returns  *)
(* false for the empty text.                                               *)
(***************************************************************************)
C7_ContainsProfanityIff ==
    op = "contains_profanity" /\ ret.type # "ValueError" =>
        /\ ret.type = "bool"
        /\ \A c \in censor(Registry(languages, profanity_patterns), text, arg) :
                c.ret.type # "ValueError" /\ c.all_patterns = all_patterns
        /\ ret.value = (ProfaneSpans(text, all_patterns) # {})
        /\ (text = <<>> => ret.value = FALSE)

\* "a\nba" under the patterns {a, b} and the exclude pattern "ba": the token
\* "a" before the newline is profane, the token "ba" after it is excluded.
C7_Witness ==
    /\ op = "contains_profanity"
    /\ text = <<"a", "\n", "b", "a">>
    /\ <<"b", "a">> \in all_patterns.exclude_patterns
    /\ ProfaneSpans(text, all_patterns) = {<<1, 1>>}
    /\ ret = [type |-> "bool", value |-> TRUE]

(***************************************************************************)
(* C11. Normalisation is idempotent: normalising a normalised string gives *)
(* the same string, for every string of letters, substituted digits and    *)
(* symbols, and boundary punctuation.                                      *)
(***************************************************************************)
C11_NormalizeIdempotent ==
    op = "normalize_twice" => SameString(ret, arg.once)

\* "-@8." is normalised to "ab", and "ab" is normalised to itself.
C11_Witness ==
    /\ op = "normalize_twice"
    /\ arg.which = "normalized_word"
    /\ word = <<"-", "@", "8">>
    /\ arg.once = <<"a", "b">>
    /\ ret = <<"a", "b">>

(***************************************************************************)
(* The registry in the claims' words.                                      *)
(***************************************************************************)
StoredPatterns(pats, k) ==
    IF k \in DOMAIN pats THEN pats[k].patterns ELSE {}

StoredExcludes(pats, k) ==
    IF k \in DOMAIN pats THEN pats[k].exclude_patterns ELSE {}

AddCustomOps == {"add_custom_language", "add_custom_profanity_patterns"}

(***************************************************************************)
(* C12: a step that adds custom patterns P and excludes E under key k      *)
(* leaves k with its previous patterns united with P and its previous      *)
(* excludes united with E (nothing when k was absent), and k is a default  *)
(* active language afterwards.                                             *)
(***************************************************************************)
C12_AddCustomIsUnion ==
    [][ op' \in AddCustomOps =>
            /\ StoredPatterns(profanity_patterns', arg'.language)
                 = StoredPatterns(profanity_patterns, arg'.language)
                      \cup arg'.custom_patterns
            /\ StoredExcludes(profanity_patterns', arg'.language)
                 = StoredExcludes(profanity_patterns, arg'.language)
                      \cup arg'.exclude_patterns
            /\ arg'.language \in languages' ]_vars

\* "ru" loaded from its pattern files, then given both custom pairs.
C12_Witness ==
    /\ op = "add_custom_language"
    /\ arg.language = "ru"
    /\ arg.custom_patterns = {<<"a", "b">>}
    /\ "ru" \in languages
    /\ "ru" \in DOMAIN profanity_patterns
    /\ profanity_patterns["ru"].patterns = {<<"b">>, <<"a", "b">>}
    /\ profanity_patterns["ru"].exclude_patterns = {<<"b", "a">>}

\* The language keys a step asked to load.
RequestedKeys(o, a) ==
    IF o = "load_languages" THEN a.languages
    ELSE IF o \in {"get_active_languages", "contains_profanity", "censor"}
    THEN a.languages \cup a.additional_languages
    ELSE {}

\* Keys for which the pattern files hold nothing.
UnknownKeys == {"zz"}

(***************************************************************************)
(* C13: a step that asks to load a set of keys of which one is unknown     *)
(* (and that does not ask for "all") ends with the pattern-not-found       *)
(* error and leaves the registry and the default active languages exactly  *)
(* as they were.                                                           *)
(***************************************************************************)
C13_FailedLoadChangesNothing ==
    [][ (/\ RequestedKeys(op', arg') \cap UnknownKeys # {}
         /\ "all" \notin RequestedKeys(op', arg'))
        =>  /\ ret' = ValueError
            /\ languages' = languages
            /\ profanity_patterns' = profanity_patterns ]_vars

\* The view a call without arguments uses: the patterns of the default
\* active languages.
DefaultView(langs, pats) ==
    [patterns |-> UNION {StoredPatterns(pats, l) : l \in langs},
     exclude_patterns |-> UNION {StoredExcludes(pats, l) : l \in langs}]

(***************************************************************************)
(* C14: a censor or contains_profanity step without a languages argument   *)
(* (with or without additional languages and custom patterns) leaves the   *)
(* default active languages and the stored sets of every language that was *)
(* present unchanged, so the tokens of the text that a call without        *)
(* arguments finds profane are the same after it as before.                *)
(***************************************************************************)
C14_CallArgumentsAreCallScoped ==
    [][ (op' \in {"censor", "contains_profanity"} /\ arg'.languages = {})
        =>  /\ languages' = languages
            /\ \A k \in DOMAIN profanity_patterns :
                /\ k \in DOMAIN profanity_patterns'
                /\ profanity_patterns'[k] = profanity_patterns[k]
            /\ ProfaneSpans(text, DefaultView(languages', profanity_patterns'))
                 = ProfaneSpans(text, DefaultView(languages, profanity_patterns)) ]_vars

\* A call with an additional language and custom patterns has run: "ru" is
\* in the registry, it is not a default, and the call's view held both.
C14_Witness ==
    /\ op = "censor"
    /\ arg.languages = {}
    /\ arg.additional_languages = {"ru"}
    /\ arg.custom_patterns = {<<"b">>}
    /\ languages = {"en"}
    /\ "ru" \in DOMAIN profanity_patterns
    /\ all_patterns.exclude_patterns = {<<"b", "a">>}
    /\ text = <<"a", "b">>
    /\ ret.value = <<"#", "#">>

(***************************************************************************)
(* C15: the set the resolution of the active languages returns.  With no   *)
(* languages it is the current defaults; with languages L without "all"    *)
(* it is L united with the defaults before the call, and every key of L is *)
(* a default afterwards; with "all" in L it is every key of the registry   *)
(* after loading.  The additional languages A are united into it.          *)
(***************************************************************************)
C15_ResolveActive ==
    [][ (op' = "get_active_languages" /\ ret'.type = "frozenset")
        =>  LET L == arg'.languages
                A == arg'.additional_languages
            IN  /\ L = {} => /\ ret'.value = languages \cup A
                             /\ languages' = languages
                /\ (L # {} /\ "all" \notin L)
                        => /\ ret'.value = L \cup languages \cup A
                           /\ L \subseteq languages'
                /\ "all" \in L
                        => ret'.value = (DOMAIN profanity_patterns') \cup A ]_vars

\* The filter had the default "en"; languages {"ru"} was resolved.
C15_Witness ==
    /\ op = "get_active_languages"
    /\ arg.languages = {"ru"}
    /\ arg.additional_languages = {}
    /\ ret.type = "frozenset"
    /\ ret.value = {"en", "ru"}
    /\ languages = {"en", "ru"}

\* "all" was resolved on a filter that holds a custom key.
C15_WitnessAll ==
    /\ op = "get_active_languages"
    /\ arg.languages = {"all"}
    /\ ret.type = "frozenset"
    /\ ret.value = {"custom", "en", "ru"}

\* The steps that load languages.
LoadingOps ==
    {"load_languages", "get_active_languages", "contains_profanity", "censor"}

(***************************************************************************)
(* C16: no step removes a key from the registry or from the default active *)
(* languages, or a pattern or exclude from a stored set; and a step that   *)
(* loads languages leaves the sets of every key that was present exactly   *)
(* as they were.                                                           *)
(***************************************************************************)
C16_RegistryOnlyGrows ==
    [][ /\ languages \subseteq languages'
        /\ \A k \in DOMAIN profanity_patterns :
            /\ k \in DOMAIN profanity_patterns'
            /\ profanity_patterns[k].patterns
                 \subseteq profanity_patterns'[k].patterns
            /\ profanity_patterns[k].exclude_patterns
                 \subseteq profanity_patterns'[k].exclude_patterns
            /\ op' \in LoadingOps
                 => profanity_patterns'[k] = profanity_patterns[k] ]_vars

\* "ru" held a custom pattern next to the patterns of its files when it was
\* asked to be loaded, and holds it afterwards.
C16_Witness ==
    /\ op = "load_languages"
    /\ arg.languages = {"ru"}
    /\ ret.type = "None"
    /\ "ru" \in DOMAIN profanity_patterns
    /\ profanity_patterns["ru"].patterns = {<<"b">>, <<"a", "b">>}

(***************************************************************************)
(* C17: combining the pattern sets of no languages with no custom patterns *)
(* and no custom excludes ends with the no-languages-specified error.      *)
(***************************************************************************)
C17_NoLanguagesSpecified ==
    (/\ op = "load_all_pattern_sets"
     /\ arg.languages = {}
     /\ arg.custom_patterns = {}
     /\ arg.custom_exclude_patterns = {})
    => ret.type = "NoLanguagesSpecified"

(***************************************************************************)
(* C18: censor preserves the shape of the text.  With a censoring symbol   *)
(* of one character c, in full and in partial mode, the output is as long  *)
(* as the input, holds at every position the input's character or c, and   *)
(* holds every space, tab and newline of the input where it was.           *)
(***************************************************************************)
C18_CensorPreservesShape ==
    (CensorReturned /\ Len(arg.censor_symbol) = 1)
    =>  /\ Len(CensoredOutput) = Len(text)
        /\ \A i \in 1..Len(text) :
            /\ CensoredOutput[i] \in {text[i], arg.censor_symbol[1]}
            /\ text[i] \in Separators => CensoredOutput[i] = text[i]

\* A partly censored token next to whitespace.
C18_Witness ==
    /\ CensorReturned
    /\ arg.partial_censor
    /\ arg.censor_symbol = <<"#">>
    /\ text = <<" ", "a", "b", "a">>
    /\ CensoredOutput = <<" ", "a", "#", "a">>

====
